---- MODULE Spec2Model ----
(***************************************************************************)
(* Model of src/app.js, the micro:bit CSV viewer: the load routine, the    *)
(* viewport (view / xDomainAll), the pan / wheel-zoom / hover handlers,    *)
(* the range, channel and reset controls, hitTest and drawSeries.          *)
(*                                                                         *)
(* Numbers.  The program computes in IEEE doubles; the model computes the  *)
(* same expressions exactly, on a fixed-point grid: a time value is an     *)
(* integer count of ticks, Q ticks to the millisecond, with Q equal to the *)
(* pixel width of the plot, so that every "pixels / plot width" ratio the  *)
(* handlers form lands on the grid.  Wheel deltas are whole notches whose  *)
(* zoom factor is 2 or 1/2 (the program's Math.exp(deltaY * 0.0012) for    *)
(* deltaY = +-577.6), kept as a numerator/denominator pair.                *)
(* A channel value or a timestamp is <<v>> when finite and <<>> when not   *)
(* (NaN).                                                                  *)
(***************************************************************************)
EXTENDS Integers, Sequences, FiniteSets, TLC

\* phase      where main() stands: "pending" (fetch in flight), "loaded", "failed"
\* data, xDomainAll, view, isPanning, panStart, rightKey   the globals of app.js
\* tooltip    index in data of the point the tooltip shows, 0 when hidden
\* drawn      the moveTo / lineTo calls of the last drawSeries, per series,
\*            and the value domains of the last draw, per axis
\* statsEl    the content of the stats element
\* ev         history: the last event handled
\* nEvents    history: the number of events handled
\* call       a call of niceTicks on its own: the arguments and, once it has
\*            returned, the result
VARIABLES phase, data, xDomainAll, view, isPanning, panStart, rightKey,
          tooltip, drawn, statsEl, ev, nEvents, call

vars == <<phase, data, xDomainAll, view, isPanning, panStart, rightKey,
          tooltip, drawn, statsEl, ev, nEvents, call>>

(* ------------------------------ bounds -------------------------------- *)
\* width of the plot rectangle in CSS pixels (plot.right - plot.left)
PlotW == 20
\* number of events (load included) a behaviour handles
MaxEvents == 5

(* ------------------------- program constants -------------------------- *)
PadLeft == 64
PadRight == 64
PadTop == 18
PadBottom == 46
LegendH == 24
\* the padding of a value domain, 0.06 of its span, as PadNum / PadDen
PadNum == 3
PadDen == 50
CanvasH == 520
HeaderCols == 9

\* ticks per millisecond
Q == PlotW
Ms(n) == n * Q
Minutes(n) == Ms(n * 60 * 1000)
Hours(n) == Ms(n * 60 * 60 * 1000)

\* 5 * 60 * 1000 ms, the lower clamp of the wheel handler
MinSpan == Ms(5 * 60 * 1000)

\* canvas.getBoundingClientRect(): width and height of the canvas
RectWidth == PadLeft + PlotW + PadRight
RectHeight == CanvasH
PlotLeft == PadLeft
PlotRight == RectWidth - PadRight
PlotTop == PadTop + LegendH
PlotBottom == RectHeight - PadBottom

(* ------------------------------ utilities ----------------------------- *)
MaxOf(a, b) == IF a >= b THEN a ELSE b
MinOf(a, b) == IF a <= b THEN a ELSE b
Abs(a) == IF a < 0 THEN -a ELSE a

\* floor(v * k / w), computed without forming v * k
MulDiv(v, k, w) == (v \div w) * k + ((v % w) * k) \div w

clamp(v, a, b) == MaxOf(a, MinOf(b, v))

IsFinite(c) == Len(c) = 1
Val(c) == c[1]

(* ------------------------------ niceTicks ----------------------------- *)
\* A step is c * 10^k, kept as the pair [c, k]; the raw step is span /
\* targetCount, kept as that fraction.
RECURSIVE Pow10(_)
Pow10(n) == IF n = 0 THEN 1 ELSE 10 * Pow10(n - 1)
Num10(k) == IF k >= 0 THEN Pow10(k) ELSE 1
Den10(k) == IF k >= 0 THEN 1 ELSE Pow10(0 - k)

\* Math.floor(Math.log10(span / targetCount)), searched from k
RECURSIVE FloorLog10(_, _, _)
FloorLog10(span, targetCount, k) ==
  IF Num10(k) * targetCount > span * Den10(k)
  THEN FloorLog10(span, targetCount, k - 1)
  ELSE IF Num10(k + 1) * targetCount <= span * Den10(k + 1)
  THEN FloorLog10(span, targetCount, k + 1)
  ELSE k

\* |c * 10^k - rawStep|, times targetCount * Den10(k)
StepDist(c, k, span, targetCount) ==
  Abs(c * Num10(k) * targetCount - span * Den10(k))

\* mutant of candidates: the next power of ten is not a candidate
candidatesNoTen == <<1, 2, 5>>

\* the multipliers of pow10 that are the candidates
candidates == <<1, 2, 5, 10>>

\* the loop that picks the step: c replaces the choice when strictly closer
RECURSIVE PickStep(_, _, _, _, _)
PickStep(i, step, k, span, targetCount) ==
  IF i > Len(candidates) THEN step
  ELSE PickStep(i + 1,
                IF StepDist(candidates[i], k, span, targetCount)
                     < StepDist(step, k, span, targetCount)
                THEN candidates[i] ELSE step,
                k, span, targetCount)

\* niceTicks(min, max, targetCount); min and max are <<v>> or << >>.  The
\* ticks of the degenerate case are the argument min as it came; the others
\* are multiples n of the step, kept as n
niceTicks(min, max, targetCount) ==
  IF ~IsFinite(min) \/ ~IsFinite(max) \/ min = max
  THEN [step |-> [c |-> 1, k |-> 0], ticks |-> <<min>>]
  ELSE LET span == Abs(Val(max) - Val(min))
           k == FloorLog10(span, targetCount, 0)
           c == PickStep(1, candidates[1], k, span, targetCount)
           start == (Val(min) * Den10(k)) \div (c * Num10(k))
           end == 0 - ((0 - Val(max) * Den10(k)) \div (c * Num10(k)))
       IN [step |-> [c |-> c, k |-> k],
           ticks |-> IF end < start THEN <<>>
                     ELSE [i \in 1..(end - start + 1) |-> start + i - 1]]

\* the arguments of the calls examined
TickBounds == {<<>>} \cup {<<v>> : v \in {-40, 0, 1, 3, 7, 10, 100, 250, 1000}}
TargetCounts == {1, 6, 10}
NoCall == [fn |-> "none"]

(* ------------------------- the fetched CSV files ----------------------- *)
\* first timestamp of every file (any instant well after the epoch)
Base == Minutes(60)

\* a data line of the file: its column count, the instant its six time
\* columns compose to, and its three channel cells
Row(n, tmin, a, b, c) ==
  [ncols |-> n, t |-> tmin, temp_OUT |-> a, moist_lv |-> b, light |-> c]
At(m) == <<Base + Minutes(m)>>

CsvOne == << Row(HeaderCols, At(0), <<21>>, <<3>>, <<7>>) >>
CsvDup == << Row(HeaderCols, At(0), <<21>>, <<3>>, <<7>>),
             Row(HeaderCols, At(0), <<22>>, <<4>>, <<8>>) >>
CsvShort == << Row(HeaderCols, At(2), <<22>>, <<4>>, <<8>>),
               Row(HeaderCols, At(0), <<21>>, <<3>>, <<7>>) >>
CsvMid == << Row(HeaderCols, At(0), <<21>>, <<3>>, <<7>>),
             Row(HeaderCols, At(10), <<22>>, <<>>, <<8>>),
             Row(HeaderCols, At(10), <<23>>, <<5>>, <<9>>),
             Row(HeaderCols, At(20), <<24>>, <<6>>, <<9>>) >>
CsvFive == << Row(HeaderCols, At(10), <<22>>, <<4>>, <<8>>),
              Row(HeaderCols, At(0), <<21>>, <<3>>, <<7>>),
              Row(HeaderCols - 1, At(5), <<20>>, <<3>>, <<7>>),
              Row(HeaderCols, At(20), <<>>, <<5>>, <<9>>),
              Row(HeaderCols, <<>>, <<25>>, <<5>>, <<9>>),
              Row(HeaderCols, At(40), <<24>>, <<7>>, <<6>>),
              Row(HeaderCols, At(30), <<23>>, <<>>, <<5>>) >>
CsvHeaderOnly == << >>
CsvBad == << Row(HeaderCols + 1, At(0), <<21>>, <<3>>, <<7>>),
             Row(HeaderCols, <<>>, <<21>>, <<3>>, <<7>>) >>

\* logs longer than the range presets: seven hours, and twenty-five hours
CsvLong == << Row(HeaderCols, At(0), <<21>>, <<3>>, <<7>>),
              Row(HeaderCols, At(180), <<22>>, <<4>>, <<8>>),
              Row(HeaderCols, At(420), <<23>>, <<5>>, <<9>>) >>
CsvDay == << Row(HeaderCols, At(0), <<21>>, <<3>>, <<7>>),
             Row(HeaderCols, At(720), <<22>>, <<4>>, <<8>>),
             Row(HeaderCols, At(1500), <<23>>, <<5>>, <<9>>) >>
RangeFiles == {CsvMid, CsvLong, CsvDay}

CsvFiles == {CsvOne, CsvDup, CsvShort, CsvMid, CsvFive, CsvHeaderOnly, CsvBad}

RightKeys == {"moist_lv", "light"}
RangeValues == {"6h", "24h", "all"}

(* ------------------------------- loading ------------------------------ *)
\* parseCSV: the rows whose column count matches the header
RECURSIVE parseCSV(_)
parseCSV(lines) ==
  IF lines = <<>> THEN <<>>
  ELSE IF Head(lines).ncols # HeaderCols THEN parseCSV(Tail(lines))
  ELSE <<Head(lines)>> \o parseCSV(Tail(lines))

\* the .map of main: one point per parsed row
Normalize(r) ==
  [x |-> r.t, temp_OUT |-> r.temp_OUT, moist_lv |-> r.moist_lv, light |-> r.light]

\* the .filter of main: the points whose x is finite, x unwrapped
RECURSIVE FilterFinite(_)
FilterFinite(rows) ==
  IF rows = <<>> THEN <<>>
  ELSE LET p == Normalize(Head(rows)) IN
       IF IsFinite(p.x)
       THEN <<[p EXCEPT !.x = Val(p.x)]>> \o FilterFinite(Tail(rows))
       ELSE FilterFinite(Tail(rows))

\* the .sort((a,b) => a.x - b.x) of main: a stable sort by x
RECURSIVE InsertByX(_, _)
InsertByX(p, s) ==
  IF s = <<>> THEN <<p>>
  ELSE IF Head(s).x <= p.x THEN <<Head(s)>> \o InsertByX(p, Tail(s))
  ELSE <<p>> \o s

RECURSIVE SortByX(_)
SortByX(s) ==
  IF s = <<>> THEN <<>>
  ELSE InsertByX(s[Len(s)], SortByX(SubSeq(s, 1, Len(s) - 1)))

(* ------------------------------- drawing ------------------------------ *)
\* one loop of drawSeries: the moveTo / lineTo calls it makes for a channel
RECURSIVE PathFrom(_, _, _, _, _, _)
PathFrom(d, key, x0, x1, i, started) ==
  IF i > Len(d) THEN <<>>
  ELSE IF d[i].x < x0 \/ d[i].x > x1 THEN PathFrom(d, key, x0, x1, i + 1, started)
  ELSE IF ~IsFinite(d[i][key]) THEN PathFrom(d, key, x0, x1, i + 1, started)
  ELSE <<[op |-> IF started THEN "lineTo" ELSE "moveTo", i |-> i]>>
         \o PathFrom(d, key, x0, x1, i + 1, TRUE)

drawSeries(d, v, keyLeft, keyRight) ==
  [left |-> PathFrom(d, keyLeft, v.x0, v.x1, 1, FALSE),
   right |-> PathFrom(d, keyRight, v.x0, v.x1, 1, FALSE)]

\* formatDate: the instant to the second
formatDate(x) == x \div Ms(1000)

NoStats == [kind |-> "none", rows |-> 0, x0 |-> 0, x1 |-> 0, right |-> ""]
ErrorStats(msg) == [kind |-> "error", rows |-> 0, x0 |-> 0, x1 |-> 0, right |-> msg]
NoDrawing == [left |-> <<>>, right |-> <<>>, yLeft |-> <<>>, yRight |-> <<>>]

\* the loop of domainForKey: <<min, max>> over the finite values of the points
\* inside [x0, x1], << >> while min and max are still +-Infinity
RECURSIVE DomainScan(_, _, _, _, _, _)
DomainScan(d, key, x0, x1, i, acc) ==
  IF i > Len(d) THEN acc
  ELSE IF d[i].x < x0 \/ d[i].x > x1 THEN DomainScan(d, key, x0, x1, i + 1, acc)
  ELSE IF ~IsFinite(d[i][key]) THEN DomainScan(d, key, x0, x1, i + 1, acc)
  ELSE LET v == Val(d[i][key]) IN
       DomainScan(d, key, x0, x1, i + 1,
                  IF acc = <<>> THEN <<v, v>>
                  ELSE <<MinOf(acc[1], v), MaxOf(acc[2], v)>>)

\* the three returns of domainForKey; a domain is in units of 1 / PadDen
DomainOf(acc) ==
  IF acc = <<>> THEN <<0, PadDen>>
  ELSE IF acc[1] = acc[2] THEN <<(acc[1] - 1) * PadDen, (acc[2] + 1) * PadDen>>
  ELSE LET pad == (acc[2] - acc[1]) * PadNum IN
       <<acc[1] * PadDen - pad, acc[2] * PadDen + pad>>

\* mutant of domainForKey: every point is scanned, visible or not
domainForKeyAll(d, key, domainX) ==
  DomainOf(DomainScan(d, key, d[1].x, d[Len(d)].x, 1, <<>>))

domainForKey(d, key, domainX) ==
  DomainOf(DomainScan(d, key, domainX[1], domainX[2], 1, <<>>))

\* mutant of Renders: draw() without its early return
RendersAlways(d) == TRUE

\* whether draw() gets past its first line
Renders(d) == Len(d) # 0

\* draw(): what it leaves on the canvas and in the stats element
draw(d, v, key) ==
  IF ~Renders(d) THEN UNCHANGED <<drawn, statsEl>>
  ELSE /\ LET series == drawSeries(d, v, "temp_OUT", key) IN
          drawn' = [left |-> series.left, right |-> series.right,
                    yLeft |-> domainForKey(d, "temp_OUT", <<v.x0, v.x1>>),
                    yRight |-> domainForKey(d, key, <<v.x0, v.x1>>)]
       /\ statsEl' = [kind |-> "summary", rows |-> Len(d),
                      x0 |-> formatDate(v.x0), x1 |-> formatDate(v.x1), right |-> key]

(* ----------------------------- hit-testing ---------------------------- *)
\* mutant of OutsidePlot: only the x range is tested, as the wheel handler does
OutsidePlotXOnly(cssX, cssY) ==
  cssX < PlotLeft \/ cssX > PlotRight

\* the plot test of hitTest (cssX, cssY relative to the canvas)
OutsidePlot(cssX, cssY) ==
  cssX < PlotLeft \/ cssX > PlotRight \/ cssY < PlotTop \/ cssY > PlotBottom

\* xVal of hitTest: the time under pixel cssX
PixelToTime(v, cssX) ==
  v.x0 + MulDiv(v.x1 - v.x0, cssX - PlotLeft, PlotRight - PlotLeft)

\* the while loop of hitTest (indices from 1)
RECURSIVE BinarySearch(_, _, _, _)
BinarySearch(d, xVal, lo, hi) ==
  IF lo < hi
  THEN LET mid == (lo + hi) \div 2 IN
       IF d[mid].x < xVal THEN BinarySearch(d, xVal, mid + 1, hi)
       ELSE BinarySearch(d, xVal, lo, mid)
  ELSE lo

\* mutant of Candidates: the insertion position alone, without its neighbours
CandidatesLoOnly(d, lo) == <<lo>>

\* [lo, lo-1, lo+1].filter(i => i >= 0 && i < data.length)
Candidates(d, lo) ==
  SelectSeq(<<lo, lo - 1, lo + 1>>, LAMBDA i : i >= 1 /\ i <= Len(d))

\* the for loop over the candidates; bestDx = -1 stands for Infinity
RECURSIVE BestOf(_, _, _, _, _)
BestOf(d, xVal, cands, best, bestDx) ==
  IF cands = <<>> THEN best
  ELSE LET i == Head(cands)
           dx == Abs(d[i].x - xVal) IN
       IF bestDx = -1 \/ dx < bestDx
       THEN BestOf(d, xVal, Tail(cands), i, dx)
       ELSE BestOf(d, xVal, Tail(cands), best, bestDx)

\* the index of the nearest point hitTest settles on
NearestIndex(d, xVal) ==
  LET lo == BinarySearch(d, xVal, 1, Len(d))
      cands == Candidates(d, lo) IN
  BestOf(d, xVal, cands, cands[1], -1)

\* hitTest: the index in data of the point it returns, 0 for null
hitTest(d, v, mouseX, mouseY) ==
  IF Len(d) = 0 THEN 0
  ELSE IF OutsidePlot(mouseX, mouseY) THEN 0
  ELSE NearestIndex(d, PixelToTime(v, mouseX))

(* ------------------------------ viewport ------------------------------ *)
\* Math.exp(e.deltaY * 0.0012) for a wheel delta of dy notches, as num / den
ZoomNum(dy) == IF dy > 0 THEN 2 ELSE 1
ZoomDen(dy) == IF dy > 0 THEN 1 ELSE 2

\* mutant of ZoomSpan: a linear factor 1 + deltaY / 2 in place of the
\* exponential one, so that a delta and its opposite are not inverse
ZoomSpanLinear(span, dom, dy) ==
  clamp(span + MulDiv(span, dy, 2), MinSpan, dom[2] - dom[1])

\* newSpan of the wheel handler
ZoomSpan(span, dom, dy) ==
  clamp(MulDiv(span, ZoomNum(dy), ZoomDen(dy)), MinSpan, dom[2] - dom[1])

\* mutant of ZoomRaw: the window is rescaled around its centre, not the cursor
ZoomRawCentered(v, dom, cssX, dy) ==
  LET span == v.x1 - v.x0
      newSpan == ZoomSpan(span, dom, dy)
      new0 == v.x0 + MulDiv(span - newSpan, 1, 2) IN
  [x0 |-> new0, x1 |-> new0 + newSpan]

\* the window of the wheel handler before its boundary corrections
ZoomRaw(v, dom, cssX, dy) ==
  LET k == cssX - PlotLeft
      w == PlotRight - PlotLeft
      span == v.x1 - v.x0
      newSpan == ZoomSpan(span, dom, dy)
      center == v.x0 + MulDiv(span, k, w)
      new0 == center - MulDiv(newSpan, k, w) IN
  [x0 |-> new0, x1 |-> new0 + newSpan]

\* the two shifts and the final clamp of the wheel handler
ZoomFit(r, dom) ==
  LET newSpan == r.x1 - r.x0
      a == IF r.x0 < dom[1] THEN [x0 |-> dom[1], x1 |-> r.x1 + (dom[1] - r.x0)] ELSE r
      b == IF a.x1 > dom[2] THEN [x0 |-> a.x0 - (a.x1 - dom[2]), x1 |-> dom[2]] ELSE a
      new0 == clamp(b.x0, dom[1], dom[2] - newSpan) IN
  [x0 |-> new0, x1 |-> new0 + newSpan]

\* the view the wheel handler sets for a cursor inside the plot
zoomAround(v, dom, cssX, dy) == ZoomFit(ZoomRaw(v, dom, cssX, dy), dom)

\* the view the mousemove handler sets while panning
panTo(ps, dom, cssX) ==
  LET dx == cssX - ps.x
      span == ps.x1 - ps.x0
      pxSpan == RectWidth - PadLeft - PadRight
      shift == 0 - MulDiv(span, dx, pxSpan)
      new0 == clamp(ps.x0 + shift, dom[1], dom[2] - span) IN
  [x0 |-> new0, x1 |-> new0 + span]

\* mutant of presetWindow: the start is not held at the start of the extent
presetWindowNoMax(v, dom) ==
  IF v = "all" THEN [x0 |-> dom[1], x1 |-> dom[2]]
  ELSE [x0 |-> dom[2] - Hours(IF v = "6h" THEN 6 ELSE 24), x1 |-> dom[2]]

\* the view the range selector sets
presetWindow(v, dom) ==
  IF v = "all" THEN [x0 |-> dom[1], x1 |-> dom[2]]
  ELSE LET hours == IF v = "6h" THEN 6 ELSE 24
           end == dom[2]
           span == Hours(hours) IN
       [x0 |-> MaxOf(dom[1], end - span), x1 |-> end]

(* --------------------------- the input events ------------------------- *)
\* pointer positions of the events (CSS pixels relative to the canvas)
MouseXs == {PlotLeft, PlotLeft + PlotW \div 2, PlotRight}
WheelXs == {PlotLeft - 1, PlotLeft, PlotLeft + PlotW \div 2, PlotRight}
MouseYs == {PlotTop, PlotBottom + 1}
HoverXs == (PlotLeft - 1) .. (PlotRight + 1)
HoverYs == {PlotTop - 1, PlotTop, PlotBottom, PlotBottom + 1}
WheelDeltas == {-1, 1}

\* the last event handled: its kind and inputs, the view it found, and
\* whether its handler rendered; for a wheel event that undoes the wheel event
\* just before it (same cursor x, opposite delta), undo is set and ox0, ox1
\* are the view that earlier event found; for a change of a selector, value
\* is the value selected
Event(type, cssX, cssY, deltaY, v, drew) ==
  [type |-> type, cssX |-> cssX, cssY |-> cssY, deltaY |-> deltaY,
   x0 |-> v.x0, x1 |-> v.x1, drew |-> drew, undo |-> FALSE, ox0 |-> 0, ox1 |-> 0,
   value |-> ""]
NoView == [x0 |-> 0, x1 |-> 0]
WheelEvent(last, cssX, cssY, deltaY, v, drew) ==
  IF last.type = "wheel" /\ last.cssX = cssX /\ last.deltaY = 0 - deltaY
  THEN [Event("wheel", cssX, cssY, deltaY, v, drew)
          EXCEPT !.undo = TRUE, !.ox0 = last.x0, !.ox1 = last.x1]
  ELSE Event("wheel", cssX, cssY, deltaY, v, drew)

(* -------------------------------- state ------------------------------- *)
Init ==
  /\ phase = "pending"
  /\ data = <<>>
  /\ xDomainAll = <<Ms(0), Ms(1)>>
  /\ view = [x0 |-> Ms(0), x1 |-> Ms(1)]
  /\ isPanning = FALSE
  /\ panStart = [x |-> 0, x0 |-> Ms(0), x1 |-> Ms(1)]
  /\ rightKey = "moist_lv"
  /\ tooltip = 0
  /\ drawn = NoDrawing
  /\ statsEl = NoStats
  /\ ev = Event("none", 0, 0, 0, NoView, FALSE)
  /\ nEvents = 0
  /\ call = NoCall

\* every handler below starts by counting its event
Count ==
  /\ nEvents < MaxEvents
  /\ nEvents' = nEvents + 1
  /\ call' = call

\* main(): the fetch answers with a file that has usable rows
LoadOk(csv) ==
  /\ Count
  /\ phase = "pending"
  /\ LET d == SortByX(FilterFinite(parseCSV(csv))) IN
     /\ Len(d) # 0
     /\ data' = d
     /\ xDomainAll' = <<d[1].x, d[Len(d)].x>>
     /\ view' = [x0 |-> d[1].x, x1 |-> d[Len(d)].x]
     /\ draw(d, view', rightKey)
  /\ phase' = "loaded"
  /\ ev' = Event("load", 0, 0, 0, NoView, TRUE)
  /\ UNCHANGED <<isPanning, panStart, rightKey, tooltip>>

\* main(): the fetch answers with a file that has no usable row
LoadEmpty(csv) ==
  /\ Count
  /\ phase = "pending"
  /\ SortByX(FilterFinite(parseCSV(csv))) = <<>>
  /\ phase' = "failed"
  /\ statsEl' = ErrorStats("Error: No data rows")
  /\ ev' = Event("load", 0, 0, 0, NoView, FALSE)
  /\ UNCHANGED <<data, xDomainAll, view, isPanning, panStart, rightKey, tooltip, drawn>>

\* main(): the fetch answers not ok
FetchFailed ==
  /\ Count
  /\ phase = "pending"
  /\ phase' = "failed"
  /\ statsEl' = ErrorStats("Error: CSV fetch failed")
  /\ ev' = Event("load", 0, 0, 0, NoView, FALSE)
  /\ UNCHANGED <<data, xDomainAll, view, isPanning, panStart, rightKey, tooltip, drawn>>

\* canvas mousemove
MouseMove(cssX, cssY) ==
  /\ Count
  /\ IF isPanning
     THEN /\ view' = panTo(panStart, xDomainAll, cssX)
          /\ draw(data, view', rightKey)
          /\ ev' = Event("mousemove", cssX, cssY, 0, NoView, Renders(data))
          /\ UNCHANGED tooltip
     ELSE /\ tooltip' = hitTest(data, view, cssX, cssY)
          /\ ev' = Event("hover", cssX, cssY, 0, NoView, FALSE)
          /\ UNCHANGED <<view, drawn, statsEl>>
  /\ UNCHANGED <<phase, data, xDomainAll, isPanning, panStart, rightKey>>

\* canvas mouseleave
MouseLeave ==
  /\ Count
  /\ tooltip' = 0
  /\ ev' = Event("mouseleave", 0, 0, 0, NoView, FALSE)
  /\ UNCHANGED <<phase, data, xDomainAll, view, isPanning, panStart, rightKey,
                 drawn, statsEl>>

\* canvas mousedown
MouseDown(cssX) ==
  /\ Count
  /\ isPanning' = TRUE
  /\ panStart' = [x |-> cssX, x0 |-> view.x0, x1 |-> view.x1]
  /\ ev' = Event("mousedown", cssX, 0, 0, NoView, FALSE)
  /\ UNCHANGED <<phase, data, xDomainAll, view, rightKey, tooltip, drawn, statsEl>>

\* mutant of MouseUp: the release does not end the pan
MouseUpIgnored ==
  /\ Count
  /\ ev' = Event("mouseup", 0, 0, 0, NoView, FALSE)
  /\ UNCHANGED <<phase, data, xDomainAll, view, isPanning, panStart, rightKey,
                 tooltip, drawn, statsEl>>

\* window mouseup
MouseUp ==
  /\ Count
  /\ isPanning' = FALSE
  /\ ev' = Event("mouseup", 0, 0, 0, NoView, FALSE)
  /\ UNCHANGED <<phase, data, xDomainAll, view, panStart, rightKey, tooltip,
                 drawn, statsEl>>

\* canvas wheel
Wheel(cssX, cssY, deltaY) ==
  /\ Count
  /\ IF cssX < PlotLeft \/ cssX > PlotRight
     THEN /\ ev' = WheelEvent(ev, cssX, cssY, deltaY, view, FALSE)
          /\ UNCHANGED <<view, drawn, statsEl>>
     ELSE /\ view' = zoomAround(view, xDomainAll, cssX, deltaY)
          /\ draw(data, view', rightKey)
          /\ ev' = WheelEvent(ev, cssX, cssY, deltaY, view, Renders(data))
  /\ UNCHANGED <<phase, data, xDomainAll, isPanning, panStart, rightKey, tooltip>>

\* mutant of RightAxisChange: the change of channel also resets the viewport
RightAxisChangeResetsView(key) ==
  /\ Count
  /\ rightKey' = key
  /\ view' = [x0 |-> xDomainAll[1], x1 |-> xDomainAll[2]]
  /\ draw(data, view', key)
  /\ ev' = [Event("rightAxis", 0, 0, 0, NoView, Renders(data)) EXCEPT !.value = key]
  /\ UNCHANGED <<phase, data, xDomainAll, isPanning, panStart, tooltip>>

\* rightAxisSelect change
RightAxisChange(key) ==
  /\ Count
  /\ rightKey' = key
  /\ draw(data, view, key)
  /\ ev' = [Event("rightAxis", 0, 0, 0, NoView, Renders(data)) EXCEPT !.value = key]
  /\ UNCHANGED <<phase, data, xDomainAll, view, isPanning, panStart, tooltip>>

\* rangeSelect change
RangeChange(v) ==
  /\ Count
  /\ view' = presetWindow(v, xDomainAll)
  /\ draw(data, view', rightKey)
  /\ ev' = [Event("range", 0, 0, 0, NoView, Renders(data)) EXCEPT !.value = v]
  /\ UNCHANGED <<phase, data, xDomainAll, isPanning, panStart, rightKey, tooltip>>

\* mutant of ResetClick: the viewport is restored, the channel is not
ResetClickViewOnly ==
  /\ Count
  /\ view' = [x0 |-> xDomainAll[1], x1 |-> xDomainAll[2]]
  /\ draw(data, view', rightKey)
  /\ ev' = Event("reset", 0, 0, 0, NoView, Renders(data))
  /\ UNCHANGED <<phase, data, xDomainAll, isPanning, panStart, rightKey, tooltip>>

\* resetBtn click
ResetClick ==
  /\ Count
  /\ rightKey' = "moist_lv"
  /\ view' = [x0 |-> xDomainAll[1], x1 |-> xDomainAll[2]]
  /\ draw(data, view', "moist_lv")
  /\ ev' = Event("reset", 0, 0, 0, NoView, Renders(data))
  /\ UNCHANGED <<phase, data, xDomainAll, isPanning, panStart, tooltip>>

\* window resize (the listener main adds after the first draw)
Resize ==
  /\ Count
  /\ phase = "loaded"
  /\ draw(data, view, rightKey)
  /\ ev' = Event("resize", 0, 0, 0, NoView, Renders(data))
  /\ UNCHANGED <<phase, data, xDomainAll, view, isPanning, panStart, rightKey, tooltip>>

Next ==
  \/ \E csv \in CsvFiles : LoadOk(csv)
  \/ \E csv \in CsvFiles : LoadEmpty(csv)
  \/ FetchFailed
  \/ \E cssX \in MouseXs, cssY \in MouseYs : MouseMove(cssX, cssY)
  \/ MouseLeave
  \/ \E cssX \in MouseXs : MouseDown(cssX)
  \/ MouseUp
  \/ \E cssX \in WheelXs, cssY \in MouseYs, dy \in WheelDeltas : Wheel(cssX, cssY, dy)
  \/ \E key \in RightKeys : RightAxisChange(key)
  \/ \E v \in RangeValues : RangeChange(v)
  \/ ResetClick
  \/ Resize

Spec == Init /\ [][Next]_vars

\* the program with the pointer never pressed, hovering over every pixel
NextHit ==
  \/ \E csv \in CsvFiles : LoadOk(csv)
  \/ \E cssX \in HoverXs, cssY \in HoverYs : MouseMove(cssX, cssY)
  \/ \E cssX \in WheelXs, dy \in WheelDeltas : Wheel(cssX, PlotTop, dy)
  \/ \E v \in RangeValues : RangeChange(v)

SpecHit == Init /\ [][NextHit]_vars

\* the program on logs of many hours, the wheel turned to zoom in only
NextRange ==
  \/ \E csv \in RangeFiles : LoadOk(csv)
  \/ \E v \in RangeValues : RangeChange(v)
  \/ ResetClick
  \/ \E cssX \in WheelXs : Wheel(cssX, PlotTop, -1)
  \/ \E cssX \in MouseXs : MouseDown(cssX)
  \/ \E cssX \in MouseXs : MouseMove(cssX, PlotTop)
  \/ MouseUp

SpecRange == Init /\ [][NextRange]_vars

\* niceTicks called on its own, for every pair of bounds and target count
InitTicks ==
  /\ phase = "pending"
  /\ data = <<>>
  /\ xDomainAll = <<Ms(0), Ms(1)>>
  /\ view = [x0 |-> Ms(0), x1 |-> Ms(1)]
  /\ isPanning = FALSE
  /\ panStart = [x |-> 0, x0 |-> Ms(0), x1 |-> Ms(1)]
  /\ rightKey = "moist_lv"
  /\ tooltip = 0
  /\ drawn = NoDrawing
  /\ statsEl = NoStats
  /\ ev = Event("none", 0, 0, 0, NoView, FALSE)
  /\ nEvents = 0
  /\ \E min \in TickBounds, max \in TickBounds, targetCount \in TargetCounts :
       call = [fn |-> "niceTicks", min |-> min, max |-> max,
               targetCount |-> targetCount, done |-> FALSE,
               result |-> [step |-> [c |-> 0, k |-> 0], ticks |-> <<>>]]

CallNiceTicks ==
  /\ call.fn = "niceTicks" /\ ~call.done
  /\ call' = [call EXCEPT !.done = TRUE,
                          !.result = niceTicks(call.min, call.max, call.targetCount)]
  /\ UNCHANGED <<phase, data, xDomainAll, view, isPanning, panStart, rightKey,
                 tooltip, drawn, statsEl, ev, nEvents>>

NextTicks == CallNiceTicks

SpecTicks == InitTicks /\ [][NextTicks]_vars

(* ============================== claims ================================ *)
FullStart == xDomainAll[1]
FullEnd == xDomainAll[2]
Span(v) == v.x1 - v.x0
InPlotX(cssX) == cssX >= PlotLeft /\ cssX <= PlotRight
InPlot(cssX, cssY) == InPlotX(cssX) /\ cssY >= PlotTop /\ cssY <= PlotBottom
\* the time under the cursor of the last hover
Target == PixelToTime(view, ev.cssX)
Dist(i) == Abs(data[i].x - Target)
\* v bounded to [lo, hi]
Bounded(v, lo, hi) == MaxOf(lo, MinOf(hi, v))
\* 2 ^ dy for a wheel delta of dy notches, as numerator and denominator
FactorNum(dy) == IF dy > 0 THEN 2 ELSE 1
FactorDen(dy) == IF dy > 0 THEN 1 ELSE 2

\* C1: after a successful load the full extent is [points[0].x, points[last].x]
\* and, in every state reachable by pointer, wheel, range and reset events,
\* fullStart <= visibleStart < visibleEnd <= fullEnd.
C1_ViewportInExtent ==
  phase = "loaded" =>
    /\ FullStart = data[1].x
    /\ FullEnd = data[Len(data)].x
    /\ FullStart <= view.x0
    /\ view.x0 < view.x1
    /\ view.x1 <= FullEnd

\* C2: in every state after load the visible span is at least minSpan
\* (5 minutes), for every dataset.
C2_MinSpanKept ==
  phase = "loaded" => Span(view) >= MinSpan

\* C3: every pointer-move handled while Panning leaves the window inside
\* [fullStart, fullEnd] and leaves the span what it was just before the move.
C3_PanKeepsSpan ==
  [][(phase = "loaded" /\ isPanning /\ ev'.type = "mousemove") =>
       /\ Span(view') = Span(view)
       /\ FullStart <= view'.x0
       /\ view'.x1 <= FullEnd]_vars

\* C4 (as stated): a wheel zoom by f followed at once by a wheel zoom by 1/f at
\* the same cursor position restores the span and keeps the anchor time at the
\* same relative position, i.e. restores the viewport.
C4_InverseZoomRestores ==
  [][(/\ phase = "loaded"
      /\ ev.type = "wheel" /\ InPlotX(ev.cssX)
      /\ ev'.type = "wheel" /\ ev'.cssX = ev.cssX /\ ev'.deltaY = 0 - ev.deltaY) =>
       /\ Span(view') = ev.x1 - ev.x0
       /\ view'.x0 = ev.x0]_vars

\* C4 (amended): when neither of the two zooms has its span clamped, the span
\* is restored; when moreover the first zoom kept the anchor (no shift at an
\* extent boundary) and the original window lay inside the extent, the
\* original viewport is restored, so the anchor keeps its relative position.
C4_InverseZoomRestoresUnclamped ==
  [][(/\ phase = "loaded"
      /\ ev.type = "wheel" /\ InPlotX(ev.cssX)
      /\ ev'.type = "wheel" /\ ev'.cssX = ev.cssX /\ ev'.deltaY = 0 - ev.deltaY
      /\ Span(view) * FactorDen(ev.deltaY) = (ev.x1 - ev.x0) * FactorNum(ev.deltaY)
      /\ ev.x1 - ev.x0 >= MinSpan
      /\ ev.x1 - ev.x0 <= FullEnd - FullStart) =>
       /\ Span(view') = ev.x1 - ev.x0
       /\ (/\ (ev.x0 - view.x0) * PlotW
                = (Span(view) - (ev.x1 - ev.x0)) * (ev.cssX - PlotLeft)
           /\ FullStart <= ev.x0
           /\ ev.x1 <= FullEnd) => view'.x0 = ev.x0]_vars

\* a zoom in to half the span and back out has happened around a cursor off
\* the plot centre, away from the edges of the extent, and the viewport is
\* again the one before the two zooms
C4_Witness ==
  /\ phase = "loaded"
  /\ ev.type = "wheel" /\ ev.undo /\ ev.deltaY = 1
  /\ ev.cssX = PlotRight
  /\ 2 * (ev.x1 - ev.x0) = ev.ox1 - ev.ox0
  /\ ev.x1 - ev.x0 >= MinSpan
  /\ FullStart < ev.ox0 /\ ev.x0 > ev.ox0
  /\ view.x0 = ev.ox0 /\ view.x1 = ev.ox1

\* C5: a wheel zoom keeps the time under the cursor fixed: with newSpan the
\* span times the factor, bounded to [minSpan, fullEnd - fullStart], whenever
\* the window rescaled around the cursor lies inside the extent the new
\* viewport is exactly that window.
C5_ZoomKeepsAnchor ==
  [][(ev'.type = "wheel" /\ InPlotX(ev'.cssX)) =>
       LET k == ev'.cssX - PlotLeft
           newSpan == Bounded(MulDiv(Span(view), FactorNum(ev'.deltaY),
                                     FactorDen(ev'.deltaY)),
                              MinSpan, FullEnd - FullStart)
           raw0 == view.x0 + MulDiv(Span(view) - newSpan, k, PlotW) IN
       (FullStart <= raw0 /\ raw0 + newSpan <= FullEnd) =>
         /\ view'.x0 = raw0
         /\ view'.x1 = raw0 + newSpan
         /\ (view.x0 - view'.x0) * PlotW = (Span(view') - Span(view)) * k]_vars

\* a zoom in around a cursor at the right edge has moved the window start
C5_Witness ==
  /\ phase = "loaded"
  /\ ev.type = "wheel" /\ ev.cssX = PlotRight /\ ev.deltaY = -1
  /\ 2 * Span(view) = ev.x1 - ev.x0
  /\ view.x1 = ev.x1
  /\ view.x0 > ev.x0
  /\ FullStart < ev.x0

\* C6: for a non-empty point sequence and a pixel inside the plot, hitTest
\* returns a point at minimum absolute time distance from the target.
C6_HitIsNearest ==
  (ev.type = "hover" /\ Len(data) # 0 /\ InPlot(ev.cssX, ev.cssY)) =>
    /\ tooltip \in 1..Len(data)
    /\ \A q \in 1..Len(data) : Dist(tooltip) <= Dist(q)

\* on the points at 0, 10, 20, 30, 40 minutes a hover at minute 22 shows the
\* point at minute 20
C6_Witness ==
  /\ ev.type = "hover" /\ InPlot(ev.cssX, ev.cssY)
  /\ Len(data) = 5
  /\ \A i \in 1..5 : data[i].x = Base + Minutes(10 * (i - 1))
  /\ Target = Base + Minutes(22)
  /\ data[tooltip].x = Base + Minutes(20)

\* C7: among several points at the same minimum distance from the target,
\* hitTest returns the one with the lowest index.
C7_TieGoesToFirst ==
  (ev.type = "hover" /\ Len(data) # 0 /\ InPlot(ev.cssX, ev.cssY)) =>
    /\ tooltip \in 1..Len(data)
    /\ \A q \in 1..Len(data) : Dist(q) = Dist(tooltip) => tooltip <= q

\* C8: hitTest returns null exactly when the point sequence is empty or the
\* pixel lies outside the plot rectangle.
C8_NullIffEmptyOrOutside ==
  ev.type = "hover" =>
    (tooltip = 0 <=> (Len(data) = 0 \/ ~InPlot(ev.cssX, ev.cssY)))

\* a hover below the plot, at an x inside it, over loaded data shows nothing
C8_Witness ==
  /\ ev.type = "hover" /\ Len(data) # 0
  /\ InPlotX(ev.cssX) /\ ev.cssY > PlotBottom
  /\ tooltip = 0

\* C9: a wheel event handled while Panning leaves the viewport unchanged.
C9_WheelIdleOnly ==
  [][(phase = "loaded" /\ isPanning /\ ev'.type = "wheel") => view' = view]_vars

\* C10: no line is drawn between two finite points that have a visible point
\* with a non-finite value of that channel between them.
GapBetween(key, i, j) ==
  \E k \in (i + 1) .. (j - 1) :
    /\ data[k].x >= view.x0 /\ data[k].x <= view.x1
    /\ ~IsFinite(data[k][key])
NoLineOverGap(path, key) ==
  \A j \in 2..Len(path) :
    path[j].op = "lineTo" => ~GapBetween(key, path[j - 1].i, path[j].i)
C10_SegmentsBreakAtGaps ==
  phase = "loaded" =>
    /\ NoLineOverGap(drawn.left, "temp_OUT")
    /\ NoLineOverGap(drawn.right, rightKey)

\* C11: domainForKey considers only the visible points with a finite value
\* of the channel and returns [0,1] if there are none, [m-1, m+1] if their
\* min and max are both m, and else min and max padded outward by 0.06 of
\* their difference; the domain has max > min and contains every such value.
VisibleValues(key) ==
  {Val(data[i][key]) : i \in {j \in 1..Len(data) :
      /\ data[j].x >= view.x0 /\ data[j].x <= view.x1
      /\ IsFinite(data[j][key])}}
Least(S) == CHOOSE m \in S : \A v \in S : m <= v
Greatest(S) == CHOOSE m \in S : \A v \in S : m >= v
DomainOk(dom, V) ==
  /\ V = {} => dom = <<0, 50>>
  /\ V # {} =>
       IF Least(V) = Greatest(V)
       THEN dom = <<50 * (Least(V) - 1), 50 * (Least(V) + 1)>>
       ELSE dom = <<50 * Least(V) - 3 * (Greatest(V) - Least(V)),
                    50 * Greatest(V) + 3 * (Greatest(V) - Least(V))>>
  /\ dom[2] > dom[1]
  /\ \A v \in V : dom[1] <= 50 * v /\ 50 * v <= dom[2]
C11_DomainOfVisibleFinite ==
  phase = "loaded" =>
    /\ DomainOk(drawn.yLeft, VisibleValues("temp_OUT"))
    /\ DomainOk(drawn.yRight, VisibleValues(rightKey))

\* the five-point file zoomed to its first half: the temperatures in view are
\* 21 and 22 (and one non-finite), the domain is theirs, padded
C11_Witness ==
  /\ phase = "loaded" /\ Len(data) = 5
  /\ view.x0 = FullStart /\ view.x1 < FullEnd
  /\ VisibleValues("temp_OUT") = {21, 22}
  /\ drawn.yLeft = <<50 * 21 - 3, 50 * 22 + 3>>

\* C12: selecting the range preset of h hours (6 or 24), from any viewport,
\* sets visibleEnd = fullEnd and visibleStart = max(fullStart, fullEnd - h *
\* 3600000); when the extent is shorter than h hours the viewport is exactly
\* the full extent; selecting 'all' always gives the full extent.
PresetHours == IF ev.value = "6h" THEN 6 ELSE 24
C12_PresetWindow ==
  ev.type = "range" =>
    /\ view.x1 = FullEnd
    /\ ev.value = "all" => view.x0 = FullStart
    /\ ev.value # "all" =>
         /\ view.x0 = MaxOf(FullStart, FullEnd - Ms(PresetHours * 3600000))
         /\ FullEnd - FullStart < Ms(PresetHours * 3600000) => view.x0 = FullStart

\* the 24 h preset on the log of 25 hours, selected during a drag
C12_Witness ==
  /\ phase = "loaded" /\ ev.type = "range" /\ ev.value = "24h"
  /\ FullEnd - FullStart = Ms(25 * 3600000)
  /\ isPanning /\ Span(panStart) < Ms(24 * 3600000)
  /\ view = [x0 |-> FullStart + Ms(3600000), x1 |-> FullEnd]

\* C13: for finite min # max and a target count, niceTicks returns a step
\* c * 10^k with c in {1, 2, 5, 10} and k = floor(log10(|max - min| /
\* targetCount)), the candidate closest to the raw step |max - min| /
\* targetCount; for min = 0, max = 100, targetCount = 6 the step is 20.  For
\* min = max or a non-finite bound the step is 1 and the only tick is min.
Returned == call.fn = "niceTicks" /\ call.done
Degenerate == ~IsFinite(call.min) \/ ~IsFinite(call.max) \/ call.min = call.max
RawNum == Abs(Val(call.max) - Val(call.min))
RawDen == call.targetCount
\* 10^k <= RawNum / RawDen < 10^(k+1)
IsFloorLog10(k) ==
  IF k >= 0
  THEN Pow10(k) * RawDen <= RawNum /\ RawNum < Pow10(k + 1) * RawDen
  ELSE RawDen <= RawNum * Pow10(0 - k) /\ RawNum * Pow10(0 - k) < 10 * RawDen
\* |a * 10^k - raw| <= |b * 10^k - raw|
NoFarther(a, b, k) ==
  IF k >= 0
  THEN Abs(a * Pow10(k) * RawDen - RawNum) <= Abs(b * Pow10(k) * RawDen - RawNum)
  ELSE Abs(a * RawDen - RawNum * Pow10(0 - k)) <= Abs(b * RawDen - RawNum * Pow10(0 - k))
C13_NiceStep ==
  Returned =>
    IF Degenerate
    THEN /\ call.result.step = [c |-> 1, k |-> 0]
         /\ call.result.ticks = <<call.min>>
    ELSE LET c == call.result.step.c
             k == call.result.step.k IN
         /\ c \in {1, 2, 5, 10}
         /\ IsFloorLog10(k)
         /\ \A b \in {1, 2, 5, 10} : NoFarther(c, b, k)
         /\ (call.min = <<0>> /\ call.max = <<100>> /\ call.targetCount = 6)
              => (c = 2 /\ k = 1)

\* the call niceTicks(0, 100, 6) has returned 20 and the ticks 0, 20, .., 100
C13_Witness ==
  /\ Returned
  /\ call.min = <<0>> /\ call.max = <<100>> /\ call.targetCount = 6
  /\ call.result.step = [c |-> 2, k |-> 1]
  /\ call.result.ticks = <<0, 1, 2, 3, 4, 5>>

\* C14: a wheel event whose cursor lies outside the plot rectangle (left of
\* plot.left, right of plot.right, above plot.top or below plot.bottom) is
\* ignored: the viewport is unchanged and nothing is rendered.  (Stated for
\* loaded files whose extent is at least the minimum span.)
C14_WheelOutsideIgnored ==
  [][(/\ phase = "loaded" /\ FullEnd - FullStart >= MinSpan
      /\ ev'.type = "wheel" /\ ~InPlot(ev'.cssX, ev'.cssY))
       => (view' = view /\ ~ev'.drew)]_vars

\* C15: from any state (any viewport, any selected channel, Idle or
\* Panning) the reset action leaves the right-axis channel at moist_lv and
\* the viewport at exactly [fullStart, fullEnd].
C15_ResetRestoresDefaults ==
  ev.type = "reset" =>
    /\ rightKey = "moist_lv"
    /\ view = [x0 |-> FullStart, x1 |-> FullEnd]
    /\ phase = "loaded" => statsEl.right = "moist_lv"

\* a reset during a drag that began on a zoomed viewport
C15_Witness ==
  /\ phase = "loaded" /\ ev.type = "reset"
  /\ isPanning /\ Span(panStart) < FullEnd - FullStart
  /\ rightKey = "moist_lv" /\ view = [x0 |-> FullStart, x1 |-> FullEnd]

\* C16: ingestion accepts a row only if its column count matches the header,
\* every field parses as a number and the composed timestamp is finite (so a
\* row with a non-numeric channel cell is rejected), and the accepted rows
\* are sorted ascending by timestamp.  A point of the model comes from a row
\* with the header's column count and a finite timestamp; its channel is
\* << >> exactly when the cell did not parse.
C16_OnlyParsedRowsAccepted ==
  phase = "loaded" =>
    /\ \A i \in 1..Len(data) :
         /\ IsFinite(data[i].temp_OUT)
         /\ IsFinite(data[i].moist_lv)
         /\ IsFinite(data[i].light)
    /\ \A i \in 1..(Len(data) - 1) : data[i].x <= data[i + 1].x

\* C17: while the fetch is pending, and forever after a load failure (fetch
\* not ok, or no usable row), no input event causes anything to be rendered;
\* a load failure ends in a state whose status message shows the error, and
\* the fetch is never tried again.
NothingRendered == drawn = NoDrawing /\ statsEl.kind # "summary"
C17_NoRenderUnlessLoaded ==
  [][/\ phase = "pending" =>
          /\ NothingRendered /\ statsEl = NoStats
          /\ phase' = "pending" => (~ev'.drew /\ drawn' = drawn /\ statsEl' = statsEl)
          /\ phase' = "failed" => (ev'.type = "load" /\ statsEl'.kind = "error")
     /\ phase = "failed" =>
          /\ NothingRendered /\ statsEl.kind = "error"
          /\ phase' = "failed" /\ ev'.type # "load"
          /\ ~ev'.drew /\ drawn' = drawn /\ statsEl' = statsEl /\ data' = data
    ]_vars

\* after a failed load a wheel event inside the plot changed the viewport, and
\* the canvas is still empty under the error message
C17_Witness ==
  /\ phase = "failed" /\ statsEl.kind = "error"
  /\ ev.type = "wheel" /\ InPlot(ev.cssX, ev.cssY)
  /\ view # [x0 |-> ev.x0, x1 |-> ev.x1]
  /\ ~ev.drew /\ drawn = NoDrawing

\* the controller's two states: a pointer-down enters Panning and records the
\* start pixel and the viewport, a pointer-up enters Idle, nothing else moves it
PanningFollowsButtons ==
  /\ ev'.type = "mousedown" =>
       /\ isPanning'
       /\ panStart' = [x |-> ev'.cssX, x0 |-> view.x0, x1 |-> view.x1]
  /\ ev'.type = "mouseup" => ~isPanning'
  /\ ev'.type \notin {"mousedown", "mouseup"} =>
       (isPanning' = isPanning /\ panStart' = panStart)
\* a pointer-move is a hit-test while Idle and a pan, with no hit-test, while Panning
MovesByState ==
  /\ ev'.type = "hover" =>
       (~isPanning /\ tooltip' = hitTest(data, view, ev'.cssX, ev'.cssY))
  /\ ev'.type = "mousemove" => (isPanning /\ tooltip' = tooltip)

\* C18 as stated: the controller is Idle at first, enters Panning only on a
\* pointer-down (recording the start pixel x and the viewport bounds) and Idle
\* on every pointer-up, so it is Panning exactly when the last of the
\* pointer-down / pointer-up events was a pointer-down; and the tooltip is
\* updated only on pointer-moves in Idle.
C18_TooltipOnlyOnIdleMove ==
  /\ ~isPanning
  /\ [][/\ PanningFollowsButtons
        /\ MovesByState
        /\ tooltip' # tooltip => ev'.type = "hover"]_vars

\* C18 amended: as above, except that a pointer-leave, in either state, hides
\* the tooltip; every other tooltip update is a pointer-move in Idle.
C18_TwoStateController ==
  /\ ~isPanning
  /\ [][/\ PanningFollowsButtons
        /\ MovesByState
        /\ ev'.type = "mouseleave" => tooltip' = 0
        /\ tooltip' # tooltip => ev'.type \in {"hover", "mouseleave"}]_vars

\* after a drag that was released, a pointer-move over a loaded chart shows a
\* tooltip
C18_Witness ==
  /\ phase = "loaded" /\ ~isPanning /\ panStart.x >= PlotLeft
  /\ ev.type = "hover" /\ tooltip # 0

\* C19: after the load no event changes the point sequence or the full
\* extent: the points stay sorted non-decreasing by x and the extent stays
\* [points[0].x, points[last].x]; a pointer-move in Idle changes neither the
\* viewport nor the selected channel, and the channel selector changes only
\* the selected channel.
SortedByX(d) == \A i \in 1..(Len(d) - 1) : d[i].x <= d[i + 1].x
C19_DataAndExtentFixed ==
  [][/\ phase' = "loaded" =>
          /\ SortedByX(data')
          /\ xDomainAll' = <<data'[1].x, data'[Len(data')].x>>
     /\ phase = "loaded" =>
          /\ phase' = "loaded" /\ data' = data /\ xDomainAll' = xDomainAll
          /\ ev'.type = "hover" => (view' = view /\ rightKey' = rightKey)
          /\ ev'.type = "rightAxis" =>
               /\ rightKey' = ev'.value
               /\ UNCHANGED <<view, isPanning, panStart, tooltip>>]_vars

\* on the file whose rows came unsorted: the channel changed to light while a
\* zoomed viewport and a tooltip were on display
C19_Witness ==
  /\ phase = "loaded" /\ Len(data) = 5
  /\ ev.type = "rightAxis" /\ rightKey = "light"
  /\ Span(view) < FullEnd - FullStart /\ tooltip # 0

====
